---- MODULE Spec2Model ----
(***************************************************************************)
(* Model of src/app.py, the Streamlit "Data Visualization Studio".         *)
(*                                                                         *)
(* Streamlit re-executes the whole script, top to bottom, once per user    *)
(* interaction.  The model therefore has two layers:                       *)
(*   - interactions, taken while the script is idle: the user changes one  *)
(*     widget or clicks one button, which schedules a script run;          *)
(*   - the script run, cut at the places where state is read or written:   *)
(*     start -> load -> source -> query -> viz -> chat -> idle.            *)
(* Only st.session_state and the widget values survive between runs; the   *)
(* data frames, the DuckDB connection and df_viz are rebuilt by every run. *)
(* Data frames are Python objects shared by reference, so the model keeps  *)
(* for df_viz both its value and the object it aliases.                    *)
(***************************************************************************)
EXTENDS Integers, Sequences, FiniteSets, TLC

VARIABLES
    uploaded,       \* st.file_uploader: the uploaded files, in order
    selected_file,  \* "Dataset" selectbox: a key of dataframes
    file_opts,      \* the options the "Dataset" selectbox was last drawn with
    chart_type,     \* "Visualization" selectbox
    sql_query,      \* "Write SQL query" text area
    run_clicked,    \* "Run Query" button, true in the run its click triggers
    y_axis,         \* Bar Chart "Y-axis" selectbox: index into y_opts
    y_opts,         \* the options the "Y-axis" selectbox was last drawn with
    question,       \* chat text input
    ask_clicked,    \* "Ask" button, true in the run its click triggers
    session_keys,   \* keys present in st.session_state
    sql_result,     \* st.session_state["sql_result"]
    chat_history,   \* st.session_state.chat_history
    pc,             \* position of the script run
    heap,           \* the df_tmp objects of this run, one per uploaded file
    dataframes,     \* dict: file name -> object (index into heap)
    con,            \* DuckDB registrations: table name -> object
    df_viz,         \* value of the frame df_viz refers to
    viz_alias,      \* which object df_viz refers to
    preview,        \* the frame handed to st.dataframe
    msgs,           \* st.success/error/warning emitted so far by this run
    chart,          \* the chart request made so far by this run
    use_latest_query, \* the mode the user wants the view of this run in
    last_result,    \* the frame the last successful execution returned
    san_name,       \* identifier derivation study: the input name
    san_once,       \*   table_name applied once
    san_twice,      \*   table_name applied to that result
    san_pc          \*   "init" or "derived"

vars == << uploaded, selected_file, file_opts, chart_type, sql_query,
           run_clicked, y_axis, y_opts, question, ask_clicked, session_keys,
           sql_result, chat_history, pc, heap, dataframes, con, df_viz,
           viz_alias, preview, msgs, chart, use_latest_query, last_result,
           san_name, san_once, san_twice,
           san_pc >>

widgetVars == << uploaded, selected_file, file_opts, chart_type, sql_query,
                 run_clicked, y_axis, y_opts, question, ask_clicked >>
sessionVars == << session_keys, sql_result, chat_history >>
loadVars == << heap, dataframes, con >>
viewVars == << df_viz, viz_alias, preview >>
outVars == << msgs, chart >>
histVars == << use_latest_query, last_result >>
sanVars == << san_name, san_once, san_twice, san_pc >>

(***************************************************************************)
(* Bounds                                                                  *)
(***************************************************************************)
MaxAsks == 2        \* questions asked in a session
MaxStem == 3        \* characters of a display name before its extension

(***************************************************************************)
(* Cells, columns and data frames                                          *)
(***************************************************************************)
N(i) == [t |-> "num", n |-> i, s |-> <<>>]
S(str) == [t |-> "str", n |-> 0, s |-> str]
NaN == [t |-> "nan", n |-> 0, s |-> <<>>]

Col(nm, ty, cs) == [name |-> nm, type |-> ty, cells |-> cs]

Columns(df) == [i \in 1..Len(df) |-> df[i].name]
NumericIdx(df) == {i \in 1..Len(df) : df[i].type = "numeric"}
NumRows(df) == IF Len(df) = 0 THEN 0 ELSE Len(df[1].cells)

\* one text column and three numeric columns; one text cell reads as a
\* number and one does not
TableA == << Col("k", "object", << S(<<"x">>), S(<<"7">>) >>),
             Col("u", "numeric", << N(1), N(2) >>),
             Col("v", "numeric", << N(3), N(4) >>),
             Col("w", "numeric", << N(5), N(6) >>) >>
\* two numeric columns
TableB == << Col("p", "numeric", << N(2) >>),
             Col("q", "numeric", << N(3) >>) >>

\* the files a user has at hand; their names differ and derive the same
\* table name
Files == { [name |-> <<"a", " ", "b", ".", "c", "s", "v">>, data |-> TableA],
           [name |-> <<"a", ".", "b", ".", "c", "s", "v">>, data |-> TableB] }

(***************************************************************************)
(* Python dicts (insertion ordered, assignment to a present key replaces   *)
(* the value and keeps the key's position)                                 *)
(***************************************************************************)
DictHas(d, k) == \E i \in 1..Len(d) : d[i].key = k
DictGet(d, k) == d[CHOOSE i \in 1..Len(d) : d[i].key = k].obj
DictPut(d, k, o) ==
    IF DictHas(d, k)
    THEN [i \in 1..Len(d) |-> IF d[i].key = k THEN [key |-> k, obj |-> o] ELSE d[i]]
    ELSE Append(d, [key |-> k, obj |-> o])
DictKeys(d) == [i \in 1..Len(d) |-> d[i].key]

(***************************************************************************)
(* File load and DuckDB registration (lines 95-106)                        *)
(***************************************************************************)
\* the second replacement written as replace(" ", ".")
table_name_SpaceToDot(name) ==
    [i \in 1..Len(name) |-> IF name[i] = "." THEN "_"
                            ELSE IF name[i] = " " THEN "." ELSE name[i]]

\* f.name.replace(".", "_").replace(" ", "_")
table_name(name) ==
    [i \in 1..Len(name) |-> IF name[i] = "." \/ name[i] = " " THEN "_" ELSE name[i]]

\* df_tmp of each loop iteration: a fresh object parsed from the file
ReadFiles(files) == [i \in 1..Len(files) |-> files[i].data]

\* dataframes[f.name] = df_tmp
RECURSIVE LoadDataframes(_, _)
LoadDataframes(files, n) ==
    IF n = 0 THEN <<>>
    ELSE DictPut(LoadDataframes(files, n - 1), files[n].name, n)

\* con.register(table_name, df_tmp): a later registration under the same
\* name replaces the earlier one
RECURSIVE LoadCon(_, _)
LoadCon(files, n) ==
    IF n = 0 THEN <<>>
    ELSE DictPut(LoadCon(files, n - 1), table_name(files[n].name), n)

(***************************************************************************)
(* Query execution (line 174): con.execute(sql_query).df()                 *)
(***************************************************************************)
IdAB == <<"a", "_", "b", "_", "c", "s", "v">>
IdC == <<"c">>

\* "syntax" stands for any text that is not a statement, the empty text of
\* a fresh text area included
Queries == { [kind |-> "syntax", tbl |-> <<>>],
             [kind |-> "select_all", tbl |-> IdAB],
             [kind |-> "select_all", tbl |-> IdC],
             [kind |-> "sum_first", tbl |-> IdAB] }

RECURSIVE SumCells(_, _)
SumCells(cs, n) == IF n = 0 THEN 0 ELSE SumCells(cs, n - 1) + cs[n].n

\* TRUE when the statement raises: invalid syntax, a table
\* that is not registered, SUM over a VARCHAR column
QueryFails(q, c, h) ==
    IF q.kind = "syntax" THEN TRUE
    ELSE IF ~DictHas(c, q.tbl) THEN TRUE
    ELSE q.kind = "sum_first" /\ h[DictGet(c, q.tbl)][1].type # "numeric"

\* the materialised result, a new frame
QueryResult(q, c, h) ==
    LET t == h[DictGet(c, q.tbl)]
    IN  IF q.kind = "select_all" THEN t
        ELSE << Col("sum", "numeric", << N(SumCells(t[1].cells, Len(t[1].cells))) >>) >>

(***************************************************************************)
(* pd.to_numeric(column, errors="coerce") (line 194)                       *)
(***************************************************************************)
DigitChars == <<"0", "1", "2", "3", "4", "5", "6", "7", "8", "9">>
IsDigit(ch) == \E d \in 1..10 : DigitChars[d] = ch
DigitVal(ch) == (CHOOSE d \in 1..10 : DigitChars[d] = ch) - 1

RECURSIVE ParseInt(_, _)
ParseInt(str, n) == IF n = 0 THEN 0 ELSE 10 * ParseInt(str, n - 1) + DigitVal(str[n])

to_numeric_cell(c) ==
    IF c.t # "str" THEN c
    ELSE IF Len(c.s) > 0 /\ \A i \in 1..Len(c.s) : IsDigit(c.s[i])
         THEN N(ParseInt(c.s, Len(c.s)))
         ELSE NaN

to_numeric(col) ==
    IF col.type = "numeric" THEN col
    ELSE Col(col.name, "numeric",
             [i \in 1..Len(col.cells) |-> to_numeric_cell(col.cells[i])])

\* df_viz[y] = pd.to_numeric(df_viz[y], errors="coerce"): assignment into
\* the frame object itself
CoerceColumn(df, y) == [i \in 1..Len(df) |-> IF i = y THEN to_numeric(df[i]) ELSE df[i]]

(***************************************************************************)
(* Widget domains and defaults                                             *)
(***************************************************************************)
ChartTypes == {"Bar Chart", "Scatter Plot", "Radar Chart", "Pair Plot",
               "Correlation Heatmap"}
Questions == {"", "q1"}
EmptyQuery == [kind |-> "syntax", tbl |-> <<>>]
NoChart == [family |-> "none", data |-> <<>>]

\* the widgets below the uploader were drawn by the last run
Rendered == file_opts # <<>>

RemoveAt(seq, i) == [j \in 1..(Len(seq) - 1) |-> IF j < i THEN seq[j] ELSE seq[j + 1]]

InitApp ==
    /\ uploaded = <<>>
    /\ selected_file = <<>>
    /\ file_opts = <<>>
    /\ chart_type = "Bar Chart"
    /\ sql_query = EmptyQuery
    /\ run_clicked = FALSE
    /\ y_axis = 1
    /\ y_opts = <<>>
    /\ question = ""
    /\ ask_clicked = FALSE
    /\ session_keys = {}
    /\ sql_result = <<>>
    /\ chat_history = <<>>
    /\ pc = "idle"
    /\ heap = <<>>
    /\ dataframes = <<>>
    /\ con = <<>>
    /\ df_viz = <<>>
    /\ viz_alias = "none"
    /\ preview = <<>>
    /\ msgs = {}
    /\ chart = NoChart
    /\ use_latest_query = TRUE
    /\ last_result = <<>>

Init ==
    /\ InitApp
    /\ san_name = <<>>
    /\ san_once = <<>>
    /\ san_twice = <<>>
    /\ san_pc = "off"

(***************************************************************************)
(* Interactions: one widget changes, Streamlit schedules a script run      *)
(***************************************************************************)
Rerun ==
    /\ pc' = "start"
    /\ UNCHANGED << sessionVars, loadVars, viewVars, outVars, histVars, sanVars >>

Upload(f) ==
    /\ pc = "idle"
    /\ \A i \in 1..Len(uploaded) : uploaded[i] # f
    /\ uploaded' = Append(uploaded, f)
    /\ UNCHANGED << selected_file, file_opts, chart_type, sql_query, run_clicked,
                    y_axis, y_opts, question, ask_clicked >>
    /\ Rerun

RemoveFile(i) ==
    /\ pc = "idle"
    /\ i \in 1..Len(uploaded)
    /\ uploaded' = RemoveAt(uploaded, i)
    /\ UNCHANGED << selected_file, file_opts, chart_type, sql_query, run_clicked,
                    y_axis, y_opts, question, ask_clicked >>
    /\ Rerun

SelectDataset(k) ==
    /\ pc = "idle"
    /\ Rendered
    /\ k \in 1..Len(file_opts)
    /\ file_opts[k] # selected_file
    /\ selected_file' = file_opts[k]
    /\ UNCHANGED << uploaded, file_opts, chart_type, sql_query, run_clicked,
                    y_axis, y_opts, question, ask_clicked >>
    /\ Rerun

SelectChart(c) ==
    /\ pc = "idle"
    /\ Rendered
    /\ c # chart_type
    /\ chart_type' = c
    /\ UNCHANGED << uploaded, selected_file, file_opts, sql_query, run_clicked,
                    y_axis, y_opts, question, ask_clicked >>
    /\ Rerun

EditQuery(q) ==
    /\ pc = "idle"
    /\ Rendered
    /\ q # sql_query
    /\ sql_query' = q
    /\ UNCHANGED << uploaded, selected_file, file_opts, chart_type, run_clicked,
                    y_axis, y_opts, question, ask_clicked >>
    /\ Rerun

ClickRun ==
    /\ pc = "idle"
    /\ Rendered
    /\ run_clicked' = TRUE
    /\ UNCHANGED << uploaded, selected_file, file_opts, chart_type, sql_query,
                    y_axis, y_opts, question, ask_clicked >>
    /\ Rerun

SelectY(i) ==
    /\ pc = "idle"
    /\ Rendered
    /\ i \in 1..Len(y_opts)
    /\ i # y_axis
    /\ y_axis' = i
    /\ UNCHANGED << uploaded, selected_file, file_opts, chart_type, sql_query,
                    run_clicked, y_opts, question, ask_clicked >>
    /\ Rerun

EditQuestion(s) ==
    /\ pc = "idle"
    /\ Rendered
    /\ s # question
    /\ question' = s
    /\ UNCHANGED << uploaded, selected_file, file_opts, chart_type, sql_query,
                    run_clicked, y_axis, y_opts, ask_clicked >>
    /\ Rerun

ClickAsk ==
    /\ pc = "idle"
    /\ Rendered
    /\ Len(chat_history) < 2 * MaxAsks
    /\ ask_clicked' = TRUE
    /\ UNCHANGED << uploaded, selected_file, file_opts, chart_type, sql_query,
                    run_clicked, y_axis, y_opts, question >>
    /\ Rerun

(***************************************************************************)
(* The script run                                                          *)
(***************************************************************************)
\* the Run Query section placed above the data source section
ScriptNext_QueryFirst(p) ==
    CASE p = "start" -> "query"
      [] p = "query" -> "source"
      [] p = "source" -> "viz"
      [] p = "viz" -> "chat"
      [] p = "chat" -> "idle"

\* the order of the script's sections
ScriptNext(p) ==
    CASE p = "start" -> "source"
      [] p = "source" -> "query"
      [] p = "query" -> "viz"
      [] p = "viz" -> "chat"
      [] p = "chat" -> "idle"

\* lines 88-90: nothing uploaded, st.stop(); the widgets below are not drawn
\* and Streamlit forgets their values
Stop ==
    /\ pc = "start"
    /\ uploaded = <<>>
    /\ msgs' = {}
    /\ selected_file' = <<>>
    /\ file_opts' = <<>>
    /\ chart_type' = "Bar Chart"
    /\ sql_query' = EmptyQuery
    /\ run_clicked' = FALSE
    /\ y_axis' = 1
    /\ y_opts' = <<>>
    /\ question' = ""
    /\ ask_clicked' = FALSE
    /\ pc' = "idle"
    /\ UNCHANGED << uploaded, sessionVars, loadVars, viewVars, chart, histVars, sanVars >>

\* lines 95-106
Load ==
    /\ pc = "start"
    /\ uploaded # <<>>
    /\ heap' = ReadFiles(uploaded)
    /\ dataframes' = LoadDataframes(uploaded, Len(uploaded))
    /\ con' = LoadCon(uploaded, Len(uploaded))
    /\ pc' = ScriptNext(pc)
    /\ UNCHANGED << widgetVars, sessionVars, viewVars, outVars, histVars, sanVars >>

\* line 114: a selectbox drawn with other options is a new widget and shows
\* its first option
SelectedFile(keys) == IF keys = file_opts THEN selected_file ELSE keys[1]

\* line 145: st.session_state.get("sql_result", df_base); the script has no
\* control for the wanted mode, so it plays no part
ActiveAlias(keys, useLatestQuery) == IF "sql_result" \in keys THEN "sql" ELSE "base"

\* lines 111-153: sidebar, data source, preview
Source ==
    /\ pc = "source"
    /\ \E useLatestQuery \in BOOLEAN :
         LET keys == DictKeys(dataframes)
             sel == SelectedFile(keys)
             df_base == heap[DictGet(dataframes, sel)]
             alias == ActiveAlias(session_keys, useLatestQuery)
             view == IF alias = "sql" THEN sql_result ELSE df_base
         IN  /\ selected_file' = sel
             /\ file_opts' = keys
             /\ df_viz' = view
             /\ viz_alias' = alias
             /\ preview' = view
             /\ use_latest_query' = useLatestQuery
    /\ pc' = ScriptNext(pc)
    /\ UNCHANGED << uploaded, chart_type, sql_query, run_clicked, y_axis, y_opts,
                    question, ask_clicked, sessionVars, loadVars, outVars,
                    last_result, sanVars >>

\* line 172: the button was not clicked
RunQuerySkip ==
    /\ pc = "query"
    /\ ~run_clicked
    /\ pc' = ScriptNext(pc)
    /\ UNCHANGED << widgetVars, sessionVars, loadVars, viewVars, outVars, histVars, sanVars >>

\* lines 173-176: session_state["sql_result"] is bound to the new frame; the
\* frame it held before stays referenced by df_viz only
RunQueryOk ==
    /\ pc = "query"
    /\ run_clicked
    /\ ~QueryFails(sql_query, con, heap)
    /\ sql_result' = QueryResult(sql_query, con, heap)
    /\ last_result' = QueryResult(sql_query, con, heap)
    /\ session_keys' = session_keys \cup {"sql_result"}
    /\ viz_alias' = IF viz_alias = "sql" THEN "old" ELSE viz_alias
    /\ msgs' = msgs \cup {"query_success"}
    /\ pc' = ScriptNext(pc)
    /\ UNCHANGED << widgetVars, chat_history, loadVars, df_viz, preview, chart,
                    use_latest_query, sanVars >>

\* lines 177-178
RunQueryFail ==
    /\ pc = "query"
    /\ run_clicked
    /\ QueryFails(sql_query, con, heap)
    /\ msgs' = msgs \cup {"query_error"}
    /\ pc' = ScriptNext(pc)
    /\ UNCHANGED << widgetVars, sessionVars, loadVars, viewVars, chart, histVars, sanVars >>

(***************************************************************************)
(* Visualizations (lines 187-252)                                          *)
(***************************************************************************)
\* the Pair Plot test written with the heatmap's label, so that the Pair
\* Plot selection falls through to the last branch
Dispatch_PairAsHeatmap(ct) ==
    CASE ct = "Bar Chart" -> "bar"
      [] ct = "Scatter Plot" -> "scatter"
      [] ct = "Radar Chart" -> "radar"
      [] ct = "Pair Plot" -> "heatmap"
      [] ct = "Correlation Heatmap" -> "heatmap"

\* the if/elif chain over chart_type
Dispatch(ct) ==
    CASE ct = "Bar Chart" -> "bar"
      [] ct = "Scatter Plot" -> "scatter"
      [] ct = "Radar Chart" -> "radar"
      [] ct = "Pair Plot" -> "pairplot"
      [] ct = "Correlation Heatmap" -> "heatmap"

\* the threshold off by one
EnoughNumeric_AtLeastOne(df) == Cardinality(NumericIdx(df)) >= 1

\* len(nums) >= 2, nums.shape[1] >= 2
EnoughNumeric(df) == Cardinality(NumericIdx(df)) >= 2

\* df_viz[df_viz[cat] == val]: the rows whose cat cell equals val; a missing
\* value equals nothing, itself included
MatchRows(df, cat, val) ==
    {r \in 1..NumRows(df) : val.t # "nan" /\ df[cat].cells[r] = val}

\* df_viz[cat].unique(); the selectbox over no options yields None, which
\* matches no row
CategoryValues(df, cat) ==
    IF NumRows(df) = 0 THEN {NaN} ELSE {df[cat].cells[r] : r \in 1..NumRows(df)}

\* line 192: the Y-axis selectbox over df_viz.columns
SelectedY(cols) == IF cols = y_opts THEN y_axis ELSE 1

\* the Y-axis selectbox is not drawn outside the Bar Chart branch
NoBarWidgets ==
    /\ y_axis' = 1
    /\ y_opts' = <<>>
    /\ UNCHANGED << uploaded, selected_file, file_opts, chart_type, sql_query,
                    run_clicked, question, ask_clicked >>

\* lines 187-197: the coercion assigns into the frame df_viz refers to, which
\* is the cached result or the selected base frame
VizBar ==
    /\ pc = "viz"
    /\ Dispatch(chart_type) = "bar"
    /\ LET cols == Columns(df_viz)
           y == SelectedY(cols)
           new == CoerceColumn(df_viz, y)
       IN  /\ y_axis' = y
           /\ y_opts' = cols
           /\ df_viz' = new
           /\ sql_result' = IF viz_alias = "sql" THEN new ELSE sql_result
           /\ heap' = IF viz_alias = "base"
                      THEN [heap EXCEPT ![DictGet(dataframes, selected_file)] = new]
                      ELSE heap
           /\ chart' = [family |-> "bar", data |-> new]
    /\ pc' = ScriptNext(pc)
    /\ UNCHANGED << uploaded, selected_file, file_opts, chart_type, sql_query,
                    run_clicked, question, ask_clicked, session_keys, chat_history,
                    dataframes, con, viz_alias, preview, msgs, histVars, sanVars >>

\* lines 199-210
VizScatter ==
    /\ pc = "viz"
    /\ Dispatch(chart_type) = "scatter"
    /\ IF EnoughNumeric(df_viz)
       THEN /\ chart' = [family |-> "scatter", data |-> df_viz]
            /\ msgs' = msgs
       ELSE /\ msgs' = msgs \cup {"chart_warning"}
            /\ chart' = chart
    /\ NoBarWidgets
    /\ pc' = ScriptNext(pc)
    /\ UNCHANGED << sessionVars, loadVars, viewVars, histVars, sanVars >>

\* lines 212-233
VizRadar ==
    /\ pc = "viz"
    /\ Dispatch(chart_type) = "radar"
    /\ \E cat \in 1..Len(df_viz), metrics \in SUBSET NumericIdx(df_viz) :
         \E val \in CategoryValues(df_viz, cat) :
            IF metrics # {} /\ MatchRows(df_viz, cat, val) # {}
            THEN chart' = [family |-> "radar", data |-> df_viz]
            ELSE chart' = chart
    /\ msgs' = msgs
    /\ NoBarWidgets
    /\ pc' = ScriptNext(pc)
    /\ UNCHANGED << sessionVars, loadVars, viewVars, histVars, sanVars >>

\* lines 235-242
VizPairPlot ==
    /\ pc = "viz"
    /\ Dispatch(chart_type) = "pairplot"
    /\ IF EnoughNumeric(df_viz)
       THEN /\ chart' = [family |-> "pairplot", data |-> df_viz]
            /\ msgs' = msgs
       ELSE /\ msgs' = msgs \cup {"chart_warning"}
            /\ chart' = chart
    /\ NoBarWidgets
    /\ pc' = ScriptNext(pc)
    /\ UNCHANGED << sessionVars, loadVars, viewVars, histVars, sanVars >>

\* lines 244-252
VizHeatmap ==
    /\ pc = "viz"
    /\ Dispatch(chart_type) = "heatmap"
    /\ IF EnoughNumeric(df_viz)
       THEN /\ chart' = [family |-> "heatmap", data |-> df_viz]
            /\ msgs' = msgs
       ELSE /\ msgs' = msgs \cup {"chart_warning"}
            /\ chart' = chart
    /\ NoBarWidgets
    /\ pc' = ScriptNext(pc)
    /\ UNCHANGED << sessionVars, loadVars, viewVars, histVars, sanVars >>

(***************************************************************************)
(* Chatbot (lines 262-277)                                                 *)
(***************************************************************************)
Placeholder == "LLM integration coming next (SQL generation)."

\* the "if question:" test left out
AskAppend_NoGuard(history, clicked, q) ==
    IF clicked
    THEN history \o << <<"You", q>>, <<"Assistant", Placeholder>> >>
    ELSE history

\* lines 269-274
AskAppend(history, clicked, q) ==
    IF clicked /\ q # ""
    THEN history \o << <<"You", q>>, <<"Assistant", Placeholder>> >>
    ELSE history

\* the run ends here: the buttons read False in the next run, the script's
\* own objects are gone and the run's messages and chart request are out
Chat ==
    /\ pc = "chat"
    /\ session_keys' = session_keys \cup {"chat_history"}
    /\ chat_history' = AskAppend(chat_history, ask_clicked, question)
    /\ run_clicked' = FALSE
    /\ ask_clicked' = FALSE
    /\ heap' = <<>>
    /\ dataframes' = <<>>
    /\ con' = <<>>
    /\ df_viz' = <<>>
    /\ viz_alias' = "none"
    /\ preview' = <<>>
    /\ msgs' = {}
    /\ chart' = NoChart
    /\ use_latest_query' = TRUE
    /\ pc' = ScriptNext(pc)
    /\ UNCHANGED << uploaded, selected_file, file_opts, chart_type, sql_query,
                    y_axis, y_opts, question, sql_result, last_result, sanVars >>

Next ==
    \/ \E f \in Files : Upload(f)
    \/ \E i \in 1..Len(uploaded) : RemoveFile(i)
    \/ \E k \in 1..Len(file_opts) : SelectDataset(k)
    \/ \E c \in ChartTypes : SelectChart(c)
    \/ \E q \in Queries : EditQuery(q)
    \/ ClickRun
    \/ \E i \in 1..Len(y_opts) : SelectY(i)
    \/ \E s \in Questions : EditQuestion(s)
    \/ ClickAsk
    \/ Stop
    \/ Load
    \/ Source
    \/ RunQuerySkip
    \/ RunQueryOk
    \/ RunQueryFail
    \/ VizBar
    \/ VizScatter
    \/ VizRadar
    \/ VizPairPlot
    \/ VizHeatmap
    \/ Chat

Spec == Init /\ [][Next]_vars

(***************************************************************************)
(* The table name derivation on its own: every display name the uploader   *)
(* accepts (a stem and a .csv or .xlsx extension), derived once and then   *)
(* again from the derived name                                             *)
(***************************************************************************)
StemChars == {"a", "B", ".", " ", "_"}
Extensions == { <<".", "c", "s", "v">>, <<".", "x", "l", "s", "x">> }
Stems == UNION {[1..n -> StemChars] : n \in 0..MaxStem}
Names == {stem \o ext : stem \in Stems, ext \in Extensions}

InitSan ==
    /\ InitApp
    /\ san_name \in Names
    /\ san_once = <<>>
    /\ san_twice = <<>>
    /\ san_pc = "init"

Derive ==
    /\ san_pc = "init"
    /\ san_once' = table_name(san_name)
    /\ san_twice' = table_name(table_name(san_name))
    /\ san_pc' = "derived"
    /\ UNCHANGED << widgetVars, sessionVars, pc, loadVars, viewVars, outVars,
                    histVars, san_name >>

NextSan == Derive

SpecSan == InitSan /\ [][NextSan]_vars

(***************************************************************************)
(* Properties                                                              *)
(***************************************************************************)
NumCount(df) == Cardinality({i \in 1..Len(df) : df[i].type = "numeric"})
TextCount(df) == Len(df) - NumCount(df)
HasResult == "sql_result" \in session_keys
Entry(q) == << <<"You", q>>, <<"Assistant", Placeholder>> >>

\* C1, as claimed: once a query execution has failed, the cached result and
\* the view of that interaction are the frame the last successful execution
\* returned.
C1_FailureKeepsLastResult ==
    (pc = "viz" /\ "query_error" \in msgs /\ HasResult)
        => (sql_result = last_result /\ df_viz = last_result)

\* The decision table of the chart classifier as the specification words it.
Classify(df) ==
    IF (\E i \in 1..Len(df) : df[i].name = "lat") /\ (\E i \in 1..Len(df) : df[i].name = "lon")
    THEN "map"
    ELSE IF NumCount(df) = 1 /\ TextCount(df) >= 1 THEN "bar"
    ELSE IF NumCount(df) = 2 /\ TextCount(df) = 0 THEN "scatter"
    ELSE IF NumCount(df) > 2 /\ TextCount(df) = 1 THEN "radar"
    ELSE IF NumCount(df) > 2 THEN "heatmap"
    ELSE "table"

\* C2, as claimed: the family of the chart an interaction ends with is the
\* one the decision table gives for the view's column signature (no chart
\* request counting as the plain table).
C2_FamilyBySignature ==
    pc = "chat" =>
        (IF chart.family = "none" THEN "table" ELSE chart.family) = Classify(preview)

\* C2, amended: the family is the one selected in the Visualization control.
\* The interaction makes at most one chart request and it is of the selected
\* family; Bar Chart always makes one; Scatter Plot, Pair Plot and
\* Correlation Heatmap make one exactly when the view has two or more
\* numeric columns.
C2_FamilyBySelection ==
    pc = "chat" =>
        LET selected == CASE chart_type = "Bar Chart" -> "bar"
                          [] chart_type = "Scatter Plot" -> "scatter"
                          [] chart_type = "Radar Chart" -> "radar"
                          [] chart_type = "Pair Plot" -> "pairplot"
                          [] chart_type = "Correlation Heatmap" -> "heatmap"
        IN  /\ chart.family \in {"none", selected}
            /\ chart_type = "Bar Chart" => chart.family = "bar"
            /\ chart_type \in {"Scatter Plot", "Pair Plot", "Correlation Heatmap"}
                  => (chart.family = "none" <=> NumCount(preview) < 2)

\* a view with one text and three numeric columns drawn as a heatmap
C2_Witness ==
    /\ pc = "chat"
    /\ NumCount(preview) = 3
    /\ TextCount(preview) = 1
    /\ chart_type = "Correlation Heatmap"
    /\ chart.family = "heatmap"

\* C3, as claimed: of two uploaded files that derive the same table name the
\* later one is rejected: the table name stays bound to the earlier file and
\* the later file does not enter the catalog.
C3_DuplicateRejected ==
    pc = "source" =>
        \A i, j \in 1..Len(uploaded) :
            (i < j /\ table_name(uploaded[i].name) = table_name(uploaded[j].name))
                => /\ DictGet(con, table_name(uploaded[i].name)) = i
                   /\ \A k \in 1..Len(dataframes) : dataframes[k].obj # j

\* C4, as claimed: the datasets of the catalog have pairwise distinct table
\* names, there are as many registered tables as datasets, and the table
\* registered under a dataset's name holds that dataset's frame.
C4_UniqueTableIds ==
    pc = "source" =>
        /\ \A a, b \in 1..Len(dataframes) :
              a # b => table_name(dataframes[a].key) # table_name(dataframes[b].key)
        /\ Len(con) = Len(dataframes)
        /\ \A a \in 1..Len(dataframes) :
              /\ DictHas(con, table_name(dataframes[a].key))
              /\ DictGet(con, table_name(dataframes[a].key)) = dataframes[a].obj

\* C5, as claimed: the view is the cached result when one exists and the
\* latest query is wanted, and the selected base dataset otherwise.
C5_ViewFollowsToggle ==
    pc = "query" =>
        LET base == heap[DictGet(dataframes, selected_file)]
        IN  IF HasResult /\ use_latest_query
            THEN viz_alias = "sql" /\ df_viz = sql_result
            ELSE viz_alias = "base" /\ df_viz = base

\* C6, as claimed: every click on Ask extends the transcript by two entries.
C6_EveryAskAddsTwo ==
    [][(pc = "chat" /\ ask_clicked) => Len(chat_history') = Len(chat_history) + 2]_vars

\* C6, amended: a click on Ask with a non-empty question appends the
\* question and then the assistant's placeholder after the entries already
\* there; a click on Ask with an empty question, and every other step of
\* every interaction, leaves the transcript as it is.
C6_TranscriptAppendOnly ==
    [][IF pc = "chat" /\ ask_clicked /\ question # ""
       THEN chat_history' = chat_history \o Entry(question)
       ELSE chat_history' = chat_history]_vars

\* two questions asked, then the script run to its end
C6_Witness == pc = "idle" /\ Len(chat_history) = 4

\* The derivation of a table identifier as the specification words it:
\* lowercase, every run of non-alphanumeric characters to one underscore,
\* a trailing _csv or _xlsx stripped.
Lower(ch) == CASE ch = "B" -> "b" [] OTHER -> ch
IsAlnum(ch) == ch \notin {".", " ", "_"}

RECURSIVE Collapse(_, _)
Collapse(str, n) ==
    IF n = 0 THEN <<>>
    ELSE IF IsAlnum(str[n]) THEN Append(Collapse(str, n - 1), Lower(str[n]))
    ELSE IF n > 1 /\ ~IsAlnum(str[n - 1]) THEN Collapse(str, n - 1)
    ELSE Append(Collapse(str, n - 1), "_")

EndsWith(str, suf) ==
    /\ Len(str) >= Len(suf)
    /\ SubSeq(str, Len(str) - Len(suf) + 1, Len(str)) = suf

StripSuffix(str) ==
    IF EndsWith(str, <<"_", "c", "s", "v">>) THEN SubSeq(str, 1, Len(str) - 4)
    ELSE IF EndsWith(str, <<"_", "x", "l", "s", "x">>) THEN SubSeq(str, 1, Len(str) - 5)
    ELSE str

Sanitize(name) == StripSuffix(Collapse(name, Len(name)))

\* C7, as claimed: the derived identifier is the lowercased, collapsed and
\* stripped form of the display name, and deriving again from it gives it
\* back.
C7_SanitizeAsDescribed ==
    san_pc = "derived" => (san_once = Sanitize(san_name) /\ san_twice = san_once)

\* C7, amended: the derivation replaces every dot and every space by an
\* underscore and changes nothing else; it is idempotent.
C7_TableNameIdempotent ==
    san_pc = "derived" =>
        /\ san_twice = san_once
        /\ Len(san_once) = Len(san_name)
        /\ \A i \in 1..Len(san_name) :
              san_once[i] = (IF san_name[i] \in {".", " "} THEN "_" ELSE san_name[i])

\* a name with a space and a dot in its stem, derived
C7_Witness ==
    /\ san_pc = "derived"
    /\ \E i, j \in 1..MaxStem : i <= Len(san_name) /\ j <= Len(san_name)
                                /\ san_name[i] = " " /\ san_name[j] = "."

\* C8, as claimed: the cached result changes only when the Run Query
\* section replaces it with the frame of a successful execution.
C8_OnlyQueryChangesData ==
    [][sql_result' # sql_result => (pc = "query" /\ "query_success" \in msgs')]_vars

\* C9: when Scatter Plot, Pair Plot or Correlation Heatmap is selected and
\* the view has fewer than two numeric columns, the visualization step
\* emits the warning, makes no chart request, leaves the cached result and
\* the transcript as they are, and the script goes on to its next section.
C9_WarningNoChart ==
    [][(/\ pc = "viz"
        /\ chart_type \in {"Scatter Plot", "Pair Plot", "Correlation Heatmap"}
        /\ NumCount(df_viz) < 2)
          => /\ "chart_warning" \in msgs'
             /\ chart' = NoChart
             /\ sql_result' = sql_result
             /\ session_keys' = session_keys
             /\ chat_history' = chat_history
             /\ pc' = "chat"]_vars

\* the warning given over a cached result, with a transcript present
C9_Witness ==
    /\ pc = "chat"
    /\ "chart_warning" \in msgs
    /\ chart = NoChart
    /\ HasResult
    /\ Len(chat_history) > 0

\* C10: when the Run Query section executes a query successfully, the
\* preview has already been drawn from the view read before (the cached
\* result of an earlier interaction, or the selected base dataset) and the
\* view stays that frame; the chart of the same interaction is built from
\* it; the data source section of a later interaction reads the new result.
C10_ViewReadBeforeQuery ==
    [][/\ (pc = "query" /\ "query_success" \in msgs')
            => /\ preview' = preview
               /\ df_viz' = df_viz
               /\ preview = IF HasResult THEN sql_result
                            ELSE heap[DictGet(dataframes, selected_file)]
       /\ (pc = "viz" /\ "query_success" \in msgs /\ chart'.family # "none")
            => chart'.data \in {preview, CoerceColumn(preview, y_axis')}
       /\ (pc = "source" /\ HasResult) => df_viz' = sql_result]_vars

\* a query has succeeded and the chart of that interaction shows other data
\* than the new result
C10_Witness ==
    /\ pc = "chat"
    /\ "query_success" \in msgs
    /\ chart.family # "none"
    /\ chart.data # sql_result
    /\ preview # sql_result

====
